---------------------------- MODULE Spec2Model ----------------------------
(***************************************************************************)
(* apitally-rs: the telemetry client (src/src/client.rs), the tower        *)
(* middleware that wraps a handler (src/src/layer.rs) and the middleware   *)
(* defined in the crate root (src/src/lib.rs).                             *)
(*                                                                         *)
(* One request is one index of Req.  The program counter pc[r] follows     *)
(* ApitallyMiddleware::call and the future it returns; the std Mutex of    *)
(* the request stash is the variable lock; every tokio::task::spawn adds   *)
(* a message to inflight (the detached tasks that are running) and to      *)
(* dispatched (every task ever spawned).                                   *)
(***************************************************************************)
EXTENDS Integers, Sequences, FiniteSets, Bags, TLC

\* Number of requests the host framework hands to the middleware.
MaxRequests == 2

Req == 1..MaxRequests

-----------------------------------------------------------------------------
(* Option<T> and Result<T, E> *)

None == <<"None">>
Some(v) == <<"Some", v>>
IsSome(o) == o[1] = "Some"
Ok(v) == <<"Ok", v>>
Err(e) == <<"Err", e>>
IsOk(x) == x[1] = "Ok"

-----------------------------------------------------------------------------
(* Uuid::new_v4(): a value no other call returns.  A value is named by the *)
(* call site and by the occurrence of the call (the request, or the        *)
(* construction), so two calls never agree.                                *)

new_v4(site, n) == <<site, n>>

-----------------------------------------------------------------------------
(* The requests and handler outcomes of the model.  A header value is the  *)
(* sequence of its bytes.                                                  *)

Bytes_42 == <<52, 50>>
Bytes_abc == <<97, 98, 99>>
Bytes_invalid == <<255>>

Requests ==
  { [method |-> "GET",  path |-> "/items/7",  query |-> None,
     matched |-> Some("/items/:id"), content_length |-> None],
    [method |-> "POST", path |-> "/users/42", query |-> Some("v=1"),
     matched |-> None, content_length |-> Some(Bytes_42)],
    [method |-> "POST", path |-> "/items/7",  query |-> None,
     matched |-> Some("/items/:id"), content_length |-> Some(Bytes_abc)],
    [method |-> "PUT",  path |-> "/raw",  query |-> None,
     matched |-> None, content_length |-> Some(Bytes_invalid)] }

NoRequest == [method |-> "", path |-> "", query |-> None,
              matched |-> None, content_length |-> None]

\* What the wrapped handler's future resolves to: a response (its status, its
\* headers and body named by one tag, and the exact size hint of its body if
\* the body has one) or the handler's error.
Outcomes ==
  { Ok([status |-> 200, content |-> "howdy", exact_size |-> Some(10)]),
    Err("handler error") }

NoOutcome == <<"Pending">>

RequestLogConfigs ==
  { [enabled |-> TRUE, log_query_params |-> None, log_request_headers |-> None,
     log_request_body |-> None, log_response_headers |-> None,
     log_response_body |-> None] }


DefaultRequestLogConfig ==
  [enabled |-> FALSE, log_query_params |-> None, log_request_headers |-> None,
   log_request_body |-> None, log_response_headers |-> None,
   log_response_body |-> None]

-----------------------------------------------------------------------------
(* The conversions of ApitallyMiddleware::call.  A value that the code     *)
(* unwraps is a Result here; Unwrap of an Err is the panic.                *)

Panic(why) == <<"Panic", why>>
IsPanic(x) == x[1] = "Panic"

\* HeaderValue::to_str: the bytes as text, if every byte is a tab or visible
\* ASCII.
to_str(bytes) ==
  IF \A i \in 1..Len(bytes) : bytes[i] = 9 \/ (bytes[i] >= 32 /\ bytes[i] < 127)
  THEN Ok(bytes)
  ELSE Err("ToStrError")

IsDigit(b) == b >= 48 /\ b <= 57

RECURSIVE DecimalValue(_)
DecimalValue(digits) ==
  IF digits = <<>> THEN 0
  ELSE DecimalValue(SubSeq(digits, 1, Len(digits) - 1)) * 10
         + (digits[Len(digits)] - 48)

\* str::parse::<usize>: an optional '+', then one or more decimal digits.
\* (The header values of the model are short: no value overflows usize.)
parse(text) ==
  IF text = <<>> THEN Err("Empty")
  ELSE LET digits == IF text[1] = 43 THEN Tail(text) ELSE text
       IN IF digits = <<>> \/ \E i \in 1..Len(digits) : ~IsDigit(digits[i])
          THEN Err("InvalidDigit")
          ELSE Ok(DecimalValue(digits))

\* layer.rs line 56-59: Ok of the content_length field of the RequestMeta, or
\* the panic of one of the two unwraps.
content_length_of(request) ==
  IF IsSome(request.content_length)
  THEN LET text == to_str(request.content_length[2])
       IN IF ~IsOk(text) THEN Panic("to_str().unwrap()")
          ELSE LET n == parse(text[2])
               IN IF ~IsOk(n) THEN Panic("parse().unwrap()") ELSE Ok(n[2])
  ELSE Ok(0)

\* layer.rs line 60-63.
matched_path_of(request) ==
  IF IsSome(request.matched) THEN request.matched[2] ELSE request.path

\* Uri::to_string of an origin-form request target.
uri_to_string(request) ==
  IF IsSome(request.query) THEN request.path \o "?" \o request.query[2]
  ELSE request.path

\* layer.rs line 55-66: Ok of the RequestMeta handed to stash_request_data, or
\* the panic raised while it is built.
RequestMetaOf(request) ==
  LET cl == content_length_of(request)
  IN IF IsPanic(cl) THEN cl
     ELSE Ok([content_length |-> cl[2],
              matched_path |-> matched_path_of(request),
              method |-> request.method,
              url |-> uri_to_string(request)])

\* layer.rs line 76-79.
ResponseMetaOf(response) ==
  [status |-> response.status,
   size |-> IF IsSome(response.exact_size) THEN response.exact_size[2] ELSE 0]

\* AdapterResult with a handler error answered by the adapter itself.
AdapterResult_swallow(outcome) ==
  IF IsOk(outcome) THEN outcome
  ELSE Ok([status |-> 500, content |-> "", exact_size |-> Some(0)])

\* layer.rs line 72 and 82: what the adapter's future resolves to, given what
\* the wrapped handler's future resolved to (`?` hands an Err on, Ok(response)
\* hands the response on).
AdapterResult(outcome) == outcome

-----------------------------------------------------------------------------
(* The messages of client.rs. *)

URL_STARTUP_SUFFIX == "startup"
URL_SYNC_SUFFIX == "sync"
URL_LOG_SUFFIX == "log"

\* client.rs line 80.
BaseUrl(client_id, environment) ==
  "https://hub.apitally.io/v2/" \o client_id \o "/" \o environment

\* client.rs line 100-126: the startup task.
StartUpMessage(c, n) ==
  [kind |-> "startup",
   url |-> c.base_url \o "/" \o URL_STARTUP_SUFFIX,
   body |-> [instance_uuid |-> c.instance_id,
             message_uuid |-> new_v4("startup_message", n),
             paths |-> <<>>,
             versions |-> <<>>,
             client |-> "rs:axum"]]

\* client.rs line 156-184: the usage-sync task.
RequestsBundleMessage(c, request_key, request_meta, response_meta) ==
  [kind |-> "sync",
   url |-> c.base_url \o "/" \o URL_SYNC_SUFFIX,
   body |-> [time_offset |-> 0,
             instance_uuid |-> c.instance_id,
             message_uuid |-> request_key,
             requests |-> << [consumer |-> None,
                              method |-> request_meta.method,
                              path |-> request_meta.matched_path,
                              status_code |-> response_meta.status,
                              request_count |-> 1,
                              request_size_sum |-> request_meta.content_length,
                              response_size_sum |-> response_meta.size] >>,
             validation_errors |-> <<>>,
             server_errors |-> <<>>,
             consumers |-> <<>>]]

\* client.rs line 223-252: the request-log task.
RequestLogMessage(c, n, request_meta, response_meta) ==
  [kind |-> "log",
   url |-> c.base_url \o "/" \o URL_LOG_SUFFIX,
   body |-> [uuid |-> new_v4("log_message", n),
             request |-> [method |-> request_meta.method,
                          path |-> request_meta.matched_path,
                          url |-> request_meta.url,
                          headers |-> <<>>,
                          size |-> request_meta.content_length,
                          consumer |-> "",
                          body |-> ""],
             response |-> [status_code |-> response_meta.status,
                           headers |-> <<>>,
                           size |-> response_meta.size,
                           body |-> ""]]]

\* client.rs line 99-129, send_startup_data: the tasks it spawns.
send_startup_data(c, n) == SetToBag({StartUpMessage(c, n)})

\* client.rs line 189-255, send_log_data: the tasks it spawns.
send_log_data(c, n, request_meta, response_meta) ==
  SetToBag({RequestLogMessage(c, n, request_meta, response_meta)})

\* client.rs line 154: the tasks the call of send_log_data inside
\* send_request_data spawns (the call is not guarded by request_log_config).
LogTasks(c, n, request_meta, response_meta) ==
  send_log_data(c, n, request_meta, response_meta)

\* SyncTasks with the POST spawned a second time.
SyncTasks_retry(c, request_key, request_meta, response_meta) ==
  SetToBag({RequestsBundleMessage(c, request_key, request_meta, response_meta)})
    (+) SetToBag({RequestsBundleMessage(c, request_key, request_meta,
                                        response_meta)})

\* client.rs line 156-184: the tasks send_request_data spawns itself.
SyncTasks(c, request_key, request_meta, response_meta) ==
  SetToBag({RequestsBundleMessage(c, request_key, request_meta, response_meta)})

\* Clone with an instance identity of its own.
Clone_new_identity(c) == [c EXCEPT !.instance_id = new_v4("instance_of_clone", 1)]

\* #[derive(Clone)] of ApitallyClient: the fields are copied (request_stash is
\* an Arc: the clone shares the map, which is the variable request_stash).
Clone(c) == c

\* HashMap::insert (client.rs line 136-140).
Insert(map, key, value) ==
  [k \in (DOMAIN map) \cup {key} |-> IF k = key THEN value ELSE map[k]]

\* HashMap::get (client.rs line 152).
Get(map, key) == IF key \in DOMAIN map THEN Some(map[key]) ELSE None

\* AfterGet with the entry taken out of the map.
AfterGet_remove(map, key) == [k \in (DOMAIN map) \ {key} |-> map[k]]

\* The map after send_request_data has read it (client.rs line 150-152: get
\* borrows, nothing is removed).
AfterGet(map, key) == map

-----------------------------------------------------------------------------
VARIABLES
  client,          \* the ApitallyClient main constructed, or NoClient
  middleware,      \* the client field of the ApitallyMiddleware, or NoClient
  request_stash,   \* the HashMap behind the Arc<Mutex<..>>: key -> RequestMeta
  lock,            \* the threads (requests) that hold the Mutex guard
  poisoned,        \* a thread panicked while it held the guard
  pc,              \* per request: where call / its future stands
  request,         \* per request: the Request handed to call
  request_key,     \* per request: the Uuid minted at layer.rs line 51
  call_client,     \* per request: the clone moved into the future (line 70)
  outcome,         \* per request: what the wrapped handler's future resolved to
  result,          \* per request: what the adapter's future resolved to
  stash_ops,       \* per request: its operations on the map, in order
  inflight,        \* bag of the detached tasks whose POST has not ended
  dispatched,      \* bag of every task ever spawned
  constructions,   \* how many times ApitallyClient::new ran
  lib_pc,          \* per request: where lib.rs's call / its future stands
  lib_request,     \* per request: the Request handed to lib.rs's call
  lib_sent         \* the RequestMeta values lib.rs's call passed on

vars == <<client, middleware, request_stash, lock, poisoned, pc, request,
          request_key, call_client, outcome, result, stash_ops, inflight,
          dispatched, constructions, lib_pc, lib_request, lib_sent>>

layer_vars == <<client, middleware, request_stash, lock, poisoned, pc, request,
                request_key, call_client, outcome, result, stash_ops, inflight,
                dispatched, constructions>>

lib_vars == <<lib_pc, lib_request, lib_sent>>

NoClient == [base_url |-> "", instance_id |-> None,
             request_log_config |-> DefaultRequestLogConfig]

NoKey == None

EmptyMap == <<>>

Init ==
  /\ client = NoClient
  /\ middleware = NoClient
  /\ request_stash = EmptyMap
  /\ lock = {}
  /\ poisoned = FALSE
  /\ pc = [r \in Req |-> "idle"]
  /\ request = [r \in Req |-> NoRequest]
  /\ request_key = [r \in Req |-> NoKey]
  /\ call_client = [r \in Req |-> NoClient]
  /\ outcome = [r \in Req |-> NoOutcome]
  /\ result = [r \in Req |-> NoOutcome]
  /\ stash_ops = [r \in Req |-> <<>>]
  /\ inflight = EmptyBag
  /\ dispatched = EmptyBag
  /\ constructions = 0
  /\ lib_pc = [r \in Req |-> "idle"]
  /\ lib_request = [r \in Req |-> NoRequest]
  /\ lib_sent = <<>>

\* DropGuard with the guard kept alive.
DropGuard_leak(r) == lock

\* The MutexGuard of thread r is dropped (client.rs line 140, line 187, and
\* the unwinding of a panic at line 152).
DropGuard(r) == lock \ {r}

\* SendKey with a key minted anew in the future.
SendKey_fresh(r) == new_v4("request_key_of_future", r)

\* The key the future hands to send_request_data (layer.rs line 75): the
\* request_key it captured.
SendKey(r) == request_key[r][2]

\* tokio::task::spawn of every task of the bag.
Spawn(tasks) ==
  /\ inflight' = inflight (+) tasks
  /\ dispatched' = dispatched (+) tasks

-----------------------------------------------------------------------------
(* main: construction, configuration, layering *)

\* ApitallyClient::new (client.rs line 79-93).
New(client_id, environment) ==
  /\ constructions = 0
  /\ LET instance == [base_url |-> BaseUrl(client_id, environment),
                      instance_id |-> new_v4("instance", constructions + 1),
                      request_log_config |-> DefaultRequestLogConfig]
     IN /\ Spawn(send_startup_data(instance, constructions + 1))
        /\ client' = instance
  /\ constructions' = constructions + 1
  /\ UNCHANGED <<middleware, request_stash, lock, poisoned, pc, request,
                 request_key, call_client, outcome, result, stash_ops,
                 lib_vars>>

\* ApitallyClient::set_request_log_config (client.rs line 95-97), on the
\* client main owns, before it is moved into the layer.
set_request_log_config(request_log_config) ==
  /\ constructions > 0
  /\ middleware = NoClient
  /\ client' = [client EXCEPT !.request_log_config = request_log_config]
  /\ UNCHANGED <<middleware, request_stash, lock, poisoned, pc, request,
                 request_key, call_client, outcome, result, stash_ops,
                 inflight, dispatched, constructions, lib_vars>>

\* Layer with a startup message for the middleware's clone.
Layer_sends_startup ==
  /\ constructions > 0
  /\ middleware = NoClient
  /\ middleware' = Clone(client)
  /\ Spawn(send_startup_data(client, constructions + 1))
  /\ UNCHANGED <<client, request_stash, lock, poisoned, pc, request,
                 request_key, call_client, outcome, result, stash_ops,
                 constructions, lib_vars>>

\* ApitallyLayer::layer (layer.rs line 22-27).
Layer ==
  /\ constructions > 0
  /\ middleware = NoClient
  /\ middleware' = Clone(client)
  /\ UNCHANGED <<client, request_stash, lock, poisoned, pc, request,
                 request_key, call_client, outcome, result, stash_ops,
                 inflight, dispatched, constructions, lib_vars>>

-----------------------------------------------------------------------------
(* ApitallyMiddleware::call of layer.rs *)

\* Requests are numbered in the order in which they arrive.
Arrives(r) ==
  /\ pc[r] = "idle"
  /\ \A q \in Req : q < r => pc[q] # "idle"

\* layer.rs line 51-67, up to the lock() inside stash_request_data: the key is
\* minted, the RequestMeta is built (or one of the unwraps panics).
call(r, req) ==
  /\ middleware # NoClient
  /\ Arrives(r)
  /\ request' = [request EXCEPT ![r] = req]
  /\ request_key' = [request_key EXCEPT ![r] = Some(new_v4("request_key", r))]
  /\ IF IsPanic(RequestMetaOf(req))
     THEN /\ pc' = [pc EXCEPT ![r] = "panicked"]
          /\ result' = [result EXCEPT ![r] = RequestMetaOf(req)]
     ELSE /\ pc' = [pc EXCEPT ![r] = "stash_lock"]
          /\ UNCHANGED result
  /\ UNCHANGED <<client, middleware, request_stash, lock, poisoned,
                 call_client, outcome, stash_ops, inflight, dispatched,
                 constructions, lib_vars>>

\* client.rs line 136-139: request_stash.lock().unwrap().
stash_lock(r) ==
  /\ pc[r] = "stash_lock"
  /\ lock = {}
  /\ IF poisoned
     THEN /\ pc' = [pc EXCEPT ![r] = "panicked"]
          /\ result' = [result EXCEPT ![r] = Panic("lock().unwrap()")]
          /\ UNCHANGED lock
     ELSE /\ pc' = [pc EXCEPT ![r] = "stash_insert"]
          /\ lock' = {r}
          /\ UNCHANGED result
  /\ UNCHANGED <<client, middleware, request_stash, poisoned, request,
                 request_key, call_client, outcome, stash_ops, inflight,
                 dispatched, constructions, lib_vars>>

\* client.rs line 140-142 and layer.rs line 69-83: insert, the guard (a
\* temporary) is dropped, Ok(()) is ignored; the handler's future is made, the
\* client is cloned and the boxed future is returned.
stash_insert(r) ==
  /\ pc[r] = "stash_insert"
  /\ LET meta == RequestMetaOf(request[r])[2]
         key == request_key[r][2]
     IN /\ request_stash' = Insert(request_stash, key, meta)
        /\ stash_ops' = [stash_ops EXCEPT
                           ![r] = Append(@, <<"insert", key, meta>>)]
  /\ lock' = DropGuard(r)
  /\ call_client' = [call_client EXCEPT ![r] = Clone(middleware)]
  /\ pc' = [pc EXCEPT ![r] = "handler"]
  /\ UNCHANGED <<client, middleware, poisoned, request, request_key, outcome,
                 result, inflight, dispatched, constructions, lib_vars>>

\* layer.rs line 72-79: the handler's future resolves.  An Err leaves through
\* `?`; a response goes on to send_request_data, up to its lock().
handler_done(r, out) ==
  /\ pc[r] = "handler"
  /\ outcome' = [outcome EXCEPT ![r] = out]
  /\ IF IsOk(out)
     THEN /\ pc' = [pc EXCEPT ![r] = "send_lock"]
          /\ UNCHANGED result
     ELSE /\ pc' = [pc EXCEPT ![r] = "returned"]
          /\ result' = [result EXCEPT ![r] = AdapterResult(out)]
  /\ UNCHANGED <<client, middleware, request_stash, lock, poisoned, request,
                 request_key, call_client, stash_ops, inflight, dispatched,
                 constructions, lib_vars>>

\* The host drops the adapter's future while it is suspended at line 72.
cancel(r) ==
  /\ pc[r] = "handler"
  /\ pc' = [pc EXCEPT ![r] = "cancelled"]
  /\ UNCHANGED <<client, middleware, request_stash, lock, poisoned, request,
                 request_key, call_client, outcome, result, stash_ops,
                 inflight, dispatched, constructions, lib_vars>>

\* client.rs line 150: request_stash.lock().unwrap().
send_lock(r) ==
  /\ pc[r] = "send_lock"
  /\ lock = {}
  /\ IF poisoned
     THEN /\ pc' = [pc EXCEPT ![r] = "panicked"]
          /\ result' = [result EXCEPT ![r] = Panic("lock().unwrap()")]
          /\ UNCHANGED lock
     ELSE /\ pc' = [pc EXCEPT ![r] = "send_get"]
          /\ lock' = {r}
          /\ UNCHANGED result
  /\ UNCHANGED <<client, middleware, request_stash, poisoned, request,
                 request_key, call_client, outcome, stash_ops, inflight,
                 dispatched, constructions, lib_vars>>

\* client.rs line 152-154: get(&request_key).unwrap().clone(), then
\* send_log_data, which spawns its task; the guard is still held.  A miss
\* panics with the guard held, which poisons the Mutex.
send_get(r) ==
  /\ pc[r] = "send_get"
  /\ LET key == SendKey(r)
         got == Get(request_stash, key)
     IN /\ stash_ops' = [stash_ops EXCEPT ![r] = Append(@, <<"get", key, got>>)]
        /\ request_stash' = AfterGet(request_stash, key)
        /\ IF IsSome(got)
           THEN /\ Spawn(LogTasks(call_client[r], r, got[2],
                                  ResponseMetaOf(outcome[r][2])))
                /\ pc' = [pc EXCEPT ![r] = "send_sync"]
                /\ UNCHANGED <<lock, poisoned, result>>
           ELSE /\ pc' = [pc EXCEPT ![r] = "panicked"]
                /\ result' = [result EXCEPT ![r] = Panic("get().unwrap()")]
                /\ lock' = DropGuard(r)
                /\ poisoned' = TRUE
                /\ UNCHANGED <<inflight, dispatched>>
  /\ UNCHANGED <<client, middleware, request, request_key, call_client,
                 outcome, constructions, lib_vars>>

\* The RequestMeta send_request_data cloned at line 152.
GotMeta(r) == stash_ops[r][Len(stash_ops[r])][3][2]

\* client.rs line 156-187 and layer.rs line 80-82: the usage message is built
\* and its task spawned, the guard is dropped as send_request_data returns, its
\* Ok(()) is ignored and the future resolves to Ok(response).
send_sync(r) ==
  /\ pc[r] = "send_sync"
  /\ Spawn(SyncTasks(call_client[r], SendKey(r), GotMeta(r),
                     ResponseMetaOf(outcome[r][2])))
  /\ lock' = DropGuard(r)
  /\ pc' = [pc EXCEPT ![r] = "returned"]
  /\ result' = [result EXCEPT ![r] = AdapterResult(outcome[r])]
  /\ UNCHANGED <<client, middleware, request_stash, poisoned, request,
                 request_key, call_client, outcome, stash_ops, constructions,
                 lib_vars>>

-----------------------------------------------------------------------------
(* The detached tasks (client.rs line 120-126, 178-184, 245-252): the POST *)
(* ends and `let _unhandled = ...` drops what it ended with.               *)

\* What reqwest's send().await gives a task: a response of the collector, or
\* a transport error.
PostResults == {Ok(200), Ok(500), Err("transport error")}

post_done(m, post_result) ==
  /\ BagIn(m, inflight)
  /\ post_result \in PostResults
  /\ inflight' = inflight (-) SetToBag({m})
  /\ UNCHANGED <<client, middleware, request_stash, lock, poisoned, pc,
                 request, request_key, call_client, outcome, result, stash_ops,
                 dispatched, constructions, lib_vars>>

post_ok == \E m \in BagToSet(inflight) : post_done(m, Ok(200))
post_http_500 == \E m \in BagToSet(inflight) : post_done(m, Ok(500))
post_transport_error ==
  \E m \in BagToSet(inflight) : post_done(m, Err("transport error"))

-----------------------------------------------------------------------------
(* ApitallyMiddleware::call of lib.rs, the middleware of the crate root.   *)
(* What the send_request_data it calls does with its argument is not part  *)
(* of the model: lib_sent holds the arguments.                             *)

LibArrives(r) ==
  /\ lib_pc[r] = "idle"
  /\ \A q \in Req : q < r => lib_pc[q] # "idle"

\* lib.rs line 48-53: the uri field, or the panic of the unwrap.
lib_uri_of(req) ==
  IF IsSome(req.matched) THEN Ok(req.matched[2])
  ELSE Panic("get::<MatchedPath>().unwrap()")

\* lib.rs line 47-56: the RequestMeta is built and passed on, the handler's
\* future is made.
lib_call(r, req) ==
  /\ middleware # NoClient
  /\ LibArrives(r)
  /\ lib_request' = [lib_request EXCEPT ![r] = req]
  /\ IF IsPanic(lib_uri_of(req))
     THEN /\ lib_pc' = [lib_pc EXCEPT ![r] = "panicked"]
          /\ UNCHANGED lib_sent
     ELSE /\ lib_pc' = [lib_pc EXCEPT ![r] = "handler"]
          /\ lib_sent' = Append(lib_sent, [uri |-> lib_uri_of(req)[2]])
  /\ UNCHANGED layer_vars

\* lib.rs line 57-61: the handler's future resolves and the adapter's future
\* resolves to the same.
lib_handler_done(r, out) ==
  /\ lib_pc[r] = "handler"
  /\ lib_pc' = [lib_pc EXCEPT ![r] = IF IsOk(out) THEN "returned" ELSE "failed"]
  /\ UNCHANGED <<lib_request, lib_sent, layer_vars>>

\* The host drops the future while it is suspended at lib.rs line 58.
lib_cancel(r) ==
  /\ lib_pc[r] = "handler"
  /\ lib_pc' = [lib_pc EXCEPT ![r] = "cancelled"]
  /\ UNCHANGED <<lib_request, lib_sent, layer_vars>>

-----------------------------------------------------------------------------
ClientIds == {"abc"}
Environments == {"prod"}

Next ==
  \/ \E id \in ClientIds, env \in Environments : New(id, env)
  \/ \E cfg \in RequestLogConfigs : set_request_log_config(cfg)
  \/ Layer
  \/ \E r \in Req, req \in Requests : call(r, req)
  \/ \E r \in Req : stash_lock(r)
  \/ \E r \in Req : stash_insert(r)
  \/ \E r \in Req, out \in Outcomes : handler_done(r, out)
  \/ \E r \in Req : cancel(r)
  \/ \E r \in Req : send_lock(r)
  \/ \E r \in Req : send_get(r)
  \/ \E r \in Req : send_sync(r)
  \/ post_ok
  \/ post_http_500
  \/ post_transport_error

Spec == Init /\ [][Next]_vars

\* The crate as lib.rs wires it: the same construction and layering, and the
\* middleware of lib.rs in front of the handler.
NextLib ==
  \/ \E id \in ClientIds, env \in Environments : New(id, env)
  \/ \E cfg \in RequestLogConfigs : set_request_log_config(cfg)
  \/ Layer
  \/ \E r \in Req, req \in Requests : lib_call(r, req)
  \/ \E r \in Req, out \in Outcomes : lib_handler_done(r, out)
  \/ \E r \in Req : lib_cancel(r)
  \/ post_ok
  \/ post_http_500
  \/ post_transport_error

SpecLib == Init /\ [][NextLib]_vars

\* The scheduler runs a thread that can run: the thread that holds the guard
\* inside stash_request_data or send_request_data takes its next step, and a
\* thread blocked in lock() gets the guard of a Mutex that stays free.
Fairness ==
  /\ WF_vars(\E r \in Req : stash_insert(r) \/ send_get(r) \/ send_sync(r))
  /\ \A r \in Req : WF_vars(stash_lock(r) \/ send_lock(r))

FairSpec == Spec /\ Fairness

-----------------------------------------------------------------------------
(* Properties *)

Dispatched == BagToSet(dispatched)

\* The sub-bag of dispatched of the messages that satisfy Keep.
BagOf(Keep(_)) == [m \in {x \in Dispatched : Keep(x)} |-> dispatched[m]]

IsKind(kind, m) == m.kind = kind
IsStartup(m) == IsKind("startup", m)
IsSync(m) == IsKind("sync", m)
IsLog(m) == IsKind("log", m)

\* The requests whose wrapped handler produced a response and whose adapter
\* future has resolved.
Completed == {r \in Req : pc[r] = "returned" /\ IsOk(outcome[r])}

\* The usage-sync messages dispatched with message identifier key.
SyncsOf(key) ==
  LET Mine(m) == IsSync(m) /\ m.body.message_uuid = key
  IN BagOf(Mine)

\* The tasks of request r that are still running.
RunningOf(r) ==
  {m \in BagToSet(inflight) :
     \/ IsSync(m) /\ Some(m.body.message_uuid) = request_key[r]
     \/ IsLog(m) /\ m.body.uuid = new_v4("log_message", r)}

\* A task ended in this step.
PostEnds == inflight' # inflight /\ dispatched' = dispatched

-----------------------------------------------------------------------------
-----------------------------------------------------------------------------
\* The operations the claim C2 expects of request r on the stash: one insert
\* of its record under its key, then one get under the same key that finds
\* that record.
WriteThenRead(r) ==
  LET key == request_key[r][2]
      meta == RequestMetaOf(request[r])[2]
  IN << <<"insert", key, meta>>, <<"get", key, Some(meta)>> >>

WriteOnly(r) == SubSeq(WriteThenRead(r), 1, 1)

\* C2 as stated: every request the adapter has answered wrote its record once
\* and then read it once.
C2_Original ==
  \A r \in Req : pc[r] = "returned" => stash_ops[r] = WriteThenRead(r)

\* C2 amended: a request whose handler produced a response wrote its record
\* once and then read exactly that record once under the same key (no miss, no
\* other request's record); a request whose handler failed or that was
\* cancelled wrote once and never read; no two requests share a key.
C2_WriteThenRead ==
  /\ \A r \in Req :
       /\ r \in Completed => stash_ops[r] = WriteThenRead(r)
       /\ pc[r] \in {"send_sync"} => stash_ops[r] = WriteThenRead(r)
       /\ pc[r] \in {"handler", "send_lock", "send_get", "cancelled"}
            => stash_ops[r] = WriteOnly(r)
       /\ pc[r] = "returned" /\ ~IsOk(outcome[r]) => stash_ops[r] = WriteOnly(r)
       /\ pc[r] \in {"idle", "stash_lock", "stash_insert", "panicked"}
            => stash_ops[r] = <<>>
  /\ \A r, q \in Req :
       r # q /\ request_key[r] # NoKey => request_key[r] # request_key[q]

\* C2 witness: two requests with different records both ran to their end and
\* the later one read its own record back.
C2_Witness ==
  \E r, q \in Req :
    /\ r < q
    /\ r \in Completed /\ q \in Completed
    /\ stash_ops[r][1][3] # stash_ops[q][1][3]
    /\ stash_ops[q][2][3] = Some(RequestMetaOf(request[q])[2])

-----------------------------------------------------------------------------
\* C3: the number of /sync messages dispatched is the number of requests whose
\* handler produced a response; each such request has exactly one, with its
\* correlation key as message identifier, at every later moment (never sent
\* again); a request whose handler failed or that was cancelled has none.
C3_SyncPerCompletedRequest ==
  /\ BagCardinality(BagOf(IsSync)) = Cardinality(Completed)
  /\ \A r \in Req :
       request_key[r] # NoKey =>
         BagCardinality(SyncsOf(request_key[r][2]))
           = IF r \in Completed THEN 1 ELSE 0

\* C3 witness: one request completed and its /sync POST has ended, another
\* request's handler failed or was cancelled.
C3_Witness ==
  \E r, q \in Req :
    /\ r \in Completed /\ RunningOf(r) = {}
    /\ \/ pc[q] = "cancelled"
       \/ pc[q] = "returned" /\ ~IsOk(outcome[q])

-----------------------------------------------------------------------------
\* C4: a /log message is dispatched only by a client whose request-log
\* configuration has enabled = TRUE.
C4_LogOnlyIfEnabled ==
  \A m \in Dispatched :
    IsLog(m) => middleware.request_log_config.enabled

-----------------------------------------------------------------------------
\* The content length the claim C5 expects: 0 without the header, the number
\* for a decimal number, 0 for anything else.
ExpectedContentLength(req) ==
  IF ~IsSome(req.content_length) THEN 0
  ELSE LET v == req.content_length[2]
       IN IF v # <<>> /\ \A i \in 1..Len(v) : IsDigit(v[i])
          THEN DecimalValue(v)
          ELSE 0

\* C5: no request panics in the extraction, and the stashed content length is
\* the expected one.
C5_ContentLength ==
  \A r \in Req :
    /\ pc[r] # "panicked"
    /\ stash_ops[r] # <<>> =>
         stash_ops[r][1][3].content_length = ExpectedContentLength(request[r])

-----------------------------------------------------------------------------
\* C6: as many startup messages were dispatched as clients were constructed,
\* whatever was cloned, layered or processed since; and when new returns the
\* startup POST is still running.
C6_StartupOnce ==
  /\ [](BagCardinality(BagOf(IsStartup)) = constructions)
  /\ [][constructions' # constructions =>
          \E m \in BagToSet(inflight') : IsStartup(m)]_vars

\* C6 witness: the client was cloned into the middleware, a request ran to
\* its end, and the startup POST of the one construction is still running.
C6_Witness ==
  /\ constructions = 1
  /\ middleware # NoClient
  /\ Completed # {}
  /\ \E m \in BagToSet(inflight) : IsStartup(m)

-----------------------------------------------------------------------------
\* The instance identity a message carries, if it carries one.
InstanceOf(m) ==
  IF "instance_uuid" \in DOMAIN m.body THEN Some(m.body.instance_uuid) ELSE None

\* C7 as stated: every message ever dispatched carries the client's instance
\* identity.
C7_Original ==
  \A m \in Dispatched : InstanceOf(m) = Some(client.instance_id)

\* C7 amended: the instance identity is set at construction and never changes,
\* every clone has it, and every startup and usage-sync message carries it; a
\* request-log message carries no instance identity (its uuid is another
\* value).
C7_InstanceIdentity ==
  /\ [][constructions > 0 => client'.instance_id = client.instance_id]_vars
  /\ [](/\ constructions > 0 => client.instance_id = new_v4("instance", 1)
        /\ middleware # NoClient => middleware.instance_id = client.instance_id
        /\ \A r \in Req :
             call_client[r] # NoClient =>
               call_client[r].instance_id = client.instance_id
        /\ \A m \in Dispatched :
             /\ IsStartup(m) \/ IsSync(m) =>
                  InstanceOf(m) = Some(client.instance_id)
             /\ IsLog(m) =>
                  InstanceOf(m) = None /\ m.body.uuid # client.instance_id)

\* C7 witness: a startup, a usage-sync and a request-log message were all
\* dispatched.
C7_Witness ==
  /\ \E m \in Dispatched : IsStartup(m)
  /\ \E m \in Dispatched : IsSync(m)
  /\ \E m \in Dispatched : IsLog(m)

-----------------------------------------------------------------------------
\* The path the claim C8 expects: the matched route pattern if there is one,
\* else the literal path.
ExpectedPath(req) == IF IsSome(req.matched) THEN req.matched[2] ELSE req.path

\* C8: no request fails in the route extraction, and the path passed on is
\* the expected one (through the middleware of lib.rs and through that of
\* layer.rs).
C8_RouteExtraction ==
  /\ \A r \in Req :
       /\ lib_pc[r] # "panicked"
       /\ lib_pc[r] # "idle" =>
            \E i \in 1..Len(lib_sent) : lib_sent[i].uri = ExpectedPath(lib_request[r])
  /\ \A r \in Req :
       stash_ops[r] # <<>> =>
         stash_ops[r][1][3].matched_path = ExpectedPath(request[r])

\* The part of C8 that is about layer.rs: the stashed path and the path of the
\* usage message are the expected one, and a request without a matched route
\* runs to its end.
RouteExtraction_layer_rs ==
  \A r \in Req :
    /\ stash_ops[r] # <<>> =>
         stash_ops[r][1][3].matched_path = ExpectedPath(request[r])
    /\ \A m \in Dispatched :
         IsSync(m) /\ Some(m.body.message_uuid) = request_key[r] =>
           m.body.requests[1].path = ExpectedPath(request[r])
    /\ pc[r] = "panicked" => IsPanic(content_length_of(request[r]))

-----------------------------------------------------------------------------
\* The keys ever stashed.
StashedKeys == {request_key[r][2] : r \in {q \in Req : stash_ops[q] # <<>>}}

\* C9: no step takes a key out of the stash or changes its record, and the
\* stash holds exactly the keys ever stashed.
C9_StashOnlyGrows ==
  /\ [][\A k \in DOMAIN request_stash :
          k \in DOMAIN request_stash' /\ request_stash'[k] = request_stash[k]]_vars
  /\ [](DOMAIN request_stash = StashedKeys)
  /\ [](\A r \in Req :
          stash_ops[r] # <<>> =>
            request_stash[request_key[r][2]] = stash_ops[r][1][3])

\* C9 witness: the stash still holds the record of a request whose usage
\* message was emitted and that of a request that was cancelled.
C9_Witness ==
  \E r, q \in Req :
    /\ r \in Completed /\ pc[q] = "cancelled"
    /\ {request_key[r][2], request_key[q][2]} \subseteq DOMAIN request_stash

-----------------------------------------------------------------------------
Waiting(r) == pc[r] \in {"stash_lock", "send_lock"}
Holding(r) == pc[r] \in {"stash_insert", "send_get", "send_sync"}

\* C10 as stated: while the lock is held no request is suspended in the
\* wrapped handler and no telemetry POST is in flight.
C10_Original ==
  lock # {} => (\A r \in Req : pc[r] # "handler") /\ inflight = EmptyBag

\* C10 amended: the lock has at most one holder; its holder is inside
\* stash_request_data or send_request_data (so it is released before either
\* returns, and the holder is never itself suspended in the handler) and can
\* always take its next step (it waits for no POST and for no handler); and
\* every request that waits for the lock eventually holds it.
C10_LockDiscipline ==
  /\ [](/\ Cardinality(lock) <= 1
        /\ \A r \in Req : r \in lock <=> Holding(r)
        /\ \A r \in lock :
             ENABLED (stash_insert(r) \/ send_get(r) \/ send_sync(r)))
  /\ \A r \in Req : Waiting(r) ~> (r \in lock)

\* C10 witness: a request holds the lock inside send_request_data, after its
\* own request-log task was spawned, while another request is suspended in its
\* handler.
C10_Witness ==
  \E r, q \in Req :
    /\ lock = {r} /\ pc[r] = "send_sync" /\ RunningOf(r) # {}
    /\ pc[q] = "handler"

=============================================================================
